---------------------------- MODULE Spec2Model ----------------------------
(***************************************************************************)
(* A model of data_profiling.py: the holiday-date calculator               *)
(* (nth_weekday_of_month, last_weekday_of_month,                           *)
(* build_us_holidays_for_year), the holiday-calendar / is_holiday loops of *)
(* the script and its numeric summary with IQR outlier fences.             *)
(*                                                                         *)
(* Three specifications share the variables:                               *)
(*   SpecFn  - the three holiday functions applied to bounded inputs;      *)
(*   SpecCal - the script's years / holiday_calendar / is_holiday loops;   *)
(*   SpecNum - the script's numeric summary loop.                          *)
(***************************************************************************)
EXTENDS Integers, Sequences, FiniteSets, TLC

VARIABLES
    pc,               \* position of the script / of the function driver
    call,             \* SpecFn: the function call being made, with its arguments
    ret,              \* SpecFn: what the call returned or raised
    dates,            \* SpecCal: df[date_col], one Timestamp or NaT per row
    years,            \* SpecCal: the list `years`
    holiday_calendar, \* SpecCal: the dict year -> set of dates
    is_holiday_vals,  \* SpecCal: the list is_holiday_vals
    is_holiday,       \* SpecCal: the column df["is_holiday"]
    i,                \* SpecCal, SpecNum: how many items the running loop has done
    df,               \* SpecNum: the numeric columns, column name -> values
    rows,             \* SpecNum: the list `rows` of summary records
    num_summary_df    \* SpecNum: the DataFrame built from rows

vars == <<pc, call, ret, dates, years, holiday_calendar, is_holiday_vals,
          is_holiday, i, df, rows, num_summary_df>>

-----------------------------------------------------------------------------
(* Bounds of the model.                                                    *)

\* Each block of years checked is this many years long.
YearSpan == 28
\* Occurrence indices n of nth_weekday_of_month are drawn from 1..MaxN.
MaxN == 6
\* The date column has 1..MaxDateRows rows.
MaxDateRows == 3
\* A numeric table has 1..MaxRows rows.
MaxRows == 6

-----------------------------------------------------------------------------
(* datetime.date, as the source uses it.                                   *)

\* datetime.MINYEAR and datetime.MAXYEAR: the years a date can hold.
MINYEAR == 1
MAXYEAR == 9999

NoDate == [year |-> 0, month |-> 0, day |-> 0]

\* A call's outcome: a value returned, or an exception raised.
Ok(d) == [exc |-> "none", val |-> d]
Raise(e) == [exc |-> e, val |-> NoDate]
Raised(r) == r.exc # "none"

IsLeap(y) == (y % 4 = 0) /\ ((y % 100 # 0) \/ (y % 400 = 0))

MonthLengths == <<31, 28, 31, 30, 31, 30, 31, 31, 30, 31, 30, 31>>

DaysInMonth(y, m) == IF m = 2 /\ IsLeap(y) THEN 29 ELSE MonthLengths[m]

\* date(y, m, d): raises ValueError unless the triple is a calendar date.
date(y, m, d) ==
    IF y \in MINYEAR..MAXYEAR /\ m \in 1..12 /\ d >= 1 /\ d <= DaysInMonth(y, m)
    THEN Ok([year |-> y, month |-> m, day |-> d])
    ELSE Raise("ValueError")

RECURSIVE DaysBeforeMonth(_, _)
DaysBeforeMonth(y, m) ==
    IF m <= 1 THEN 0 ELSE DaysBeforeMonth(y, m - 1) + DaysInMonth(y, m - 1)

DaysBeforeYear(y) ==
    (y - 1) * 365 + ((y - 1) \div 4) - ((y - 1) \div 100) + ((y - 1) \div 400)

\* date.toordinal(): 1 for 0001-01-01.
ToOrdinal(d) == DaysBeforeYear(d.year) + DaysBeforeMonth(d.year, d.month) + d.day

\* date.weekday(): Monday = 0 .. Sunday = 6.
Weekday(d) == (ToOrdinal(d) + 6) % 7

\* d - timedelta(days=1): the day before, OverflowError before 0001-01-01.
MinusOneDay(d) ==
    IF d.day > 1 THEN Ok([d EXCEPT !.day = d.day - 1])
    ELSE IF d.month > 1
         THEN Ok([year |-> d.year, month |-> d.month - 1,
                  day |-> DaysInMonth(d.year, d.month - 1)])
         ELSE IF d.year > MINYEAR
              THEN Ok([year |-> d.year - 1, month |-> 12, day |-> 31])
              ELSE Raise("OverflowError")

-----------------------------------------------------------------------------
(* The holiday functions.                                                  *)

\* while d.weekday() != weekday: d = date(d.year, d.month, d.day + 1)
RECURSIVE SeekWeekday(_, _)
SeekWeekday(r, weekday) ==
    IF Raised(r) \/ Weekday(r.val) = weekday THEN r
    ELSE SeekWeekday(date(r.val.year, r.val.month, r.val.day + 1), weekday)

\* A different week loop: d = d + timedelta(days=7), which rolls over into
\* the following month (OverflowError past the last year).
RECURSIVE AddWeeksRollOver(_, _)
AddWeeksRollOver(r, k) ==
    IF Raised(r) \/ k <= 0 THEN r
    ELSE LET d == r.val
             len == DaysInMonth(d.year, d.month)
             later ==
                 IF d.day + 7 <= len THEN Ok([d EXCEPT !.day = d.day + 7])
                 ELSE IF d.month < 12
                      THEN Ok([year |-> d.year, month |-> d.month + 1,
                               day |-> d.day + 7 - len])
                      ELSE IF d.year < MAXYEAR
                           THEN Ok([year |-> d.year + 1, month |-> 1,
                                    day |-> d.day + 7 - len])
                           ELSE Raise("OverflowError")
         IN  AddWeeksRollOver(later, k - 1)

\* for _ in range(k): d = date(d.year, d.month, d.day + 7)
RECURSIVE AddWeeks(_, _)
AddWeeks(r, k) ==
    IF Raised(r) \/ k <= 0 THEN r
    ELSE AddWeeks(date(r.val.year, r.val.month, r.val.day + 7), k - 1)

\* A slip in the week loop: range(n) in place of range(n - 1).
NthOneWeekMore(y, m, weekday, n) ==
    AddWeeks(SeekWeekday(date(y, m, 1), weekday), n)

nth_weekday_of_month(y, m, weekday, n) ==
    AddWeeks(SeekWeekday(date(y, m, 1), weekday), n - 1)

\* while last.weekday() != weekday: last = last - timedelta(days=1)
RECURSIVE SeekBack(_, _)
SeekBack(r, weekday) ==
    IF Raised(r) \/ Weekday(r.val) = weekday THEN r
    ELSE SeekBack(MinusOneDay(r.val), weekday)

\* A slip: the m == 12 branch left out, so December looks up month 13.
LastDayNoDecember(y, m) ==
    LET first_next == date(y, m + 1, 1)
    IN  IF Raised(first_next) THEN first_next ELSE MinusOneDay(first_next.val)

\* The last day of month m: Dec 31, or the day before the next month's first.
LastDayOfMonth(y, m) ==
    IF m = 12 THEN date(y, 12, 31)
    ELSE LET first_next == date(y, m + 1, 1)
         IN  IF Raised(first_next) THEN first_next ELSE MinusOneDay(first_next.val)

last_weekday_of_month(y, m, weekday) == SeekBack(LastDayOfMonth(y, m), weekday)

\* The ten hol.add(...) arguments of build_us_holidays_for_year, in order.
HolidayRules(y) ==
    << date(y, 1, 1),
       date(y, 7, 4),
       date(y, 11, 11),
       date(y, 12, 25),
       nth_weekday_of_month(y, 1, 0, 3),
       nth_weekday_of_month(y, 2, 0, 3),
       last_weekday_of_month(y, 5, 0),
       nth_weekday_of_month(y, 9, 0, 1),
       nth_weekday_of_month(y, 10, 0, 2),
       nth_weekday_of_month(y, 11, 3, 4) >>

\* The set built from the rules; the first rule that raises ends the call.
HolidaySetOf(rules) ==
    LET bad == {k \in 1..Len(rules) : Raised(rules[k])}
    IN  IF bad # {}
        THEN [exc |-> rules[CHOOSE k \in bad : \A j \in bad : k <= j].exc, hol |-> {}]
        ELSE [exc |-> "none", hol |-> {rules[k].val : k \in 1..Len(rules)}]

\* A slip: Thanksgiving taken as the 2nd Thursday of November.
BuildSecondThursday(y) ==
    HolidaySetOf([HolidayRules(y) EXCEPT ![10] = nth_weekday_of_month(y, 11, 3, 2)])

\* A slip: Memorial Day taken as the 4th Monday of May.
BuildFourthMonday(y) ==
    HolidaySetOf([HolidayRules(y) EXCEPT ![7] = nth_weekday_of_month(y, 5, 0, 4)])

build_us_holidays_for_year(y) == HolidaySetOf(HolidayRules(y))

-----------------------------------------------------------------------------
(* SpecFn: the holiday functions applied to bounded inputs.                *)

\* The years the functions are called with: a block at each end of the
\* range of date, one year beyond each end, a block around the present and
\* two century years that are not leap years.
Years ==
    ((MINYEAR - 1) .. (MINYEAR + YearSpan))
    \cup (2000 .. (2000 + YearSpan))
    \cup {1900, 2100}
    \cup ((MAXYEAR - YearSpan) .. (MAXYEAR + 1))

Months == 1..12
Weekdays == 0..6

NoCall == [fn |-> "none", y |-> 0, m |-> 0, weekday |-> 0, n |-> 0]
NoRet == [exc |-> "none", val |-> NoDate]

\* What SpecFn leaves alone: the script's state.
scriptVars == <<dates, years, holiday_calendar, is_holiday_vals, is_holiday,
                i, df, rows, num_summary_df>>
ScriptIdle ==
    /\ dates = <<>>
    /\ years = <<>>
    /\ holiday_calendar = <<>>
    /\ is_holiday_vals = <<>>
    /\ is_holiday = <<>>
    /\ i = 0
    /\ df = <<>>
    /\ rows = <<>>
    /\ num_summary_df = <<>>

InitFn ==
    /\ pc = "idle"
    /\ call = NoCall
    /\ ret = NoRet
    /\ ScriptIdle

CallNth ==
    /\ pc = "idle"
    /\ \E y \in Years, m \in Months, weekday \in Weekdays, n \in 1..MaxN :
          /\ call' = [fn |-> "nth_weekday_of_month", y |-> y, m |-> m,
                      weekday |-> weekday, n |-> n]
          /\ ret' = nth_weekday_of_month(y, m, weekday, n)
    /\ pc' = "called"
    /\ UNCHANGED scriptVars

CallLast ==
    /\ pc = "idle"
    /\ \E y \in Years, m \in Months, weekday \in Weekdays :
          /\ call' = [fn |-> "last_weekday_of_month", y |-> y, m |-> m,
                      weekday |-> weekday, n |-> 0]
          /\ ret' = last_weekday_of_month(y, m, weekday)
    /\ pc' = "called"
    /\ UNCHANGED scriptVars

CallBuild ==
    /\ pc = "idle"
    /\ \E y \in Years :
          /\ call' = [fn |-> "build_us_holidays_for_year", y |-> y, m |-> 0,
                      weekday |-> 0, n |-> 0]
          /\ ret' = build_us_holidays_for_year(y)
    /\ pc' = "called"
    /\ UNCHANGED scriptVars

\* The caller takes the outcome; the next call starts afresh.
Return ==
    /\ pc = "called"
    /\ pc' = "idle"
    /\ call' = NoCall
    /\ ret' = NoRet
    /\ UNCHANGED scriptVars

NextFn == CallNth \/ CallLast \/ CallBuild \/ Return

SpecFn == InitFn /\ [][NextFn]_vars

CalledNth == pc = "called" /\ call.fn = "nth_weekday_of_month"
CalledLast == pc = "called" /\ call.fn = "last_weekday_of_month"
CalledBuild == pc = "called" /\ call.fn = "build_us_holidays_for_year"
ValidYear(y) == y \in MINYEAR..MAXYEAR

\* The days of month m of year y that fall on weekday w, by the calendar.
DaysOn(y, m, w) ==
    {d \in 1..DaysInMonth(y, m) :
        Weekday([year |-> y, month |-> m, day |-> d]) = w}

\* The n-th w of the month: the one with exactly n - 1 earlier ones.
NthOn(y, m, w, n) ==
    [year |-> y, month |-> m,
     day |-> CHOOSE d \in DaysOn(y, m, w) :
                 Cardinality({e \in DaysOn(y, m, w) : e < d}) = n - 1]

\* The last w of the month: the one with no later one.
LastOn(y, m, w) ==
    [year |-> y, month |-> m,
     day |-> CHOOSE d \in DaysOn(y, m, w) : \A e \in DaysOn(y, m, w) : e <= d]

IsCalendarDate(d) ==
    /\ ValidYear(d.year)
    /\ d.month \in Months
    /\ d.day \in 1..DaysInMonth(d.year, d.month)

-----------------------------------------------------------------------------
(* Claims about the holiday functions (checked under SpecFn).              *)

\* C1: for every year Y that a date can hold, build_us_holidays_for_year(Y)
\* returns a set of exactly 10 distinct dates, each with year Y.
C1_TenDatesOfTheYear ==
    (CalledBuild /\ ValidYear(call.y)) =>
        /\ ~Raised(ret)
        /\ Cardinality(ret.hol) = 10
        /\ \A d \in ret.hol : d.year = call.y

\* C1 witness: the calendar of a year whose Veterans Day is a Thursday (the
\* 2nd Thursday of November), next to Thanksgiving's rule, has ten dates.
C1_Witness ==
    /\ CalledBuild
    /\ Weekday([year |-> call.y, month |-> 11, day |-> 11]) = 3
    /\ Cardinality(ret.hol) = 10

\* C2 as stated: for every n in 1..MaxN, nth_weekday_of_month returns a date
\* with weekday W and day of month in [1 + 7(n-1), 7n].
C2_Original ==
    (CalledNth /\ ValidYear(call.y)) =>
        /\ ~Raised(ret)
        /\ Weekday(ret.val) = call.weekday
        /\ ret.val.day >= 1 + 7 * (call.n - 1)
        /\ ret.val.day <= 7 * call.n

\* C2 amended: whenever month M of year Y has an n-th W (always so for
\* n <= 4), nth_weekday_of_month returns a date of that month with weekday W
\* and day of month in [1 + 7(n-1), 7n].
C2_NthWhenItExists ==
    (CalledNth /\ ValidYear(call.y)
       /\ Cardinality(DaysOn(call.y, call.m, call.weekday)) >= call.n) =>
        /\ ~Raised(ret)
        /\ ret.val.year = call.y /\ ret.val.month = call.m
        /\ Weekday(ret.val) = call.weekday
        /\ ret.val.day >= 1 + 7 * (call.n - 1)
        /\ ret.val.day <= 7 * call.n

\* C2 witness: a 5th W that exists, the 31st of a month, is returned.
C2_Witness ==
    /\ CalledNth
    /\ call.n = 5
    /\ ~Raised(ret)
    /\ ret.val.day = 31

\* C3: last_weekday_of_month(Y, M, W) returns a date of month M of year Y
\* with weekday W, and no later date of that month has weekday W.
C3_LastWeekday ==
    (CalledLast /\ ValidYear(call.y)) =>
        /\ ~Raised(ret)
        /\ ret.val.year = call.y /\ ret.val.month = call.m
        /\ ret.val.day \in 1..DaysInMonth(call.y, call.m)
        /\ Weekday(ret.val) = call.weekday
        /\ \A d \in (ret.val.day + 1)..DaysInMonth(call.y, call.m) :
              Weekday([year |-> call.y, month |-> call.m, day |-> d]) # call.weekday

\* C3 witness: the last W of a leap year's February is the 29th.
C3_Witness ==
    /\ CalledLast
    /\ call.m = 2
    /\ ~Raised(ret)
    /\ ret.val.day = 29

\* C4: the set returned is exactly Jan 1, Jul 4, Nov 11, Dec 25 (unshifted),
\* the 3rd Monday of January and of February, the last Monday of May, the 1st
\* Monday of September, the 2nd Monday of October and the 4th Thursday of
\* November; in 2024 the rule-based dates are Jan 15, Feb 19, May 27, Sep 2,
\* Oct 14 and Nov 28.
C4_ExactHolidaySet ==
    (CalledBuild /\ ValidYear(call.y)) =>
        LET y == call.y
            D(m, d) == [year |-> y, month |-> m, day |-> d]
        IN  /\ ret.hol =
                  {D(1, 1), D(7, 4), D(11, 11), D(12, 25),
                   NthOn(y, 1, 0, 3), NthOn(y, 2, 0, 3), LastOn(y, 5, 0),
                   NthOn(y, 9, 0, 1), NthOn(y, 10, 0, 2), NthOn(y, 11, 3, 4)}
            /\ (y = 2024) =>
                  ret.hol \ {D(1, 1), D(7, 4), D(11, 11), D(12, 25)} =
                      {D(1, 15), D(2, 19), D(5, 27), D(9, 2), D(10, 14), D(11, 28)}

\* C4 witness: the calendar of 2024, whose May has four Mondays, holds
\* Memorial Day, May 27, and New Year's Day, a Monday.
C4_Witness ==
    /\ CalledBuild
    /\ call.y = 2024
    /\ [year |-> 2024, month |-> 5, day |-> 27] \in ret.hol
    /\ [year |-> 2024, month |-> 1, day |-> 1] \in ret.hol

-----------------------------------------------------------------------------
(* SpecCal: the holiday calendar of the data and the is_holiday column     *)
(* (sections "build a holiday calendar" and "is_holiday flag").            *)

\* A cell of the parsed date column: a Timestamp, or NaT.
NaT == [isna |-> TRUE, val |-> NoDate]
Timestamp(y, m, d) == [isna |-> FALSE, val |-> [year |-> y, month |-> m, day |-> d]]

\* The cells the date column is drawn from: holidays and ordinary days of
\* three years, a day that is a holiday in another year only, and NaT.
DateChoices ==
    { NaT,
      Timestamp(2023, 11, 23), Timestamp(2023, 11, 11), Timestamp(2023, 11, 24),
      Timestamp(2024, 5, 27), Timestamp(2024, 5, 28), Timestamp(2024, 11, 28),
      Timestamp(2024, 11, 23), Timestamp(2025, 1, 1) }

\* series.dropna(): the cells that are not missing, in order.
RECURSIVE DropNa(_)
DropNa(col) ==
    IF col = <<>> THEN <<>>
    ELSE IF Head(col).isna THEN DropNa(Tail(col))
         ELSE <<Head(col)>> \o DropNa(Tail(col))

\* x in list
InList(x, list) == \E k \in 1..Len(list) : list[k] = x

\* sorted(list) for a list of integers.
RECURSIVE Insert(_, _)
Insert(x, sortedList) ==
    IF sortedList = <<>> THEN <<x>>
    ELSE IF x <= Head(sortedList) THEN <<x>> \o sortedList
         ELSE <<Head(sortedList)>> \o Insert(x, Tail(sortedList))

RECURSIVE sorted(_)
sorted(list) == IF list = <<>> THEN <<>> ELSE Insert(Head(list), sorted(Tail(list)))

\* y in holiday_calendar
HasKey(cal, y) == y \in DOMAIN cal

\* holiday_calendar[y] = hol
SetKey(cal, y, hol) ==
    [k \in (DOMAIN cal) \cup {y} |-> IF k = y THEN hol ELSE cal[k]]

\* A slip: the membership test dropped, only the year looked up.
FlagYearOnly(dval, cal) ==
    IF dval.isna THEN "NaN"
    ELSE IF HasKey(cal, dval.val.year) THEN "True" ELSE "False"

\* The body of the is_holiday loop: the flag of one row.
HolidayFlag(dval, cal) ==
    IF dval.isna THEN "NaN"
    ELSE LET the_date == dval.val
             y == dval.val.year
         IN  IF HasKey(cal, y) /\ the_date \in cal[y] THEN "True" ELSE "False"

InitCal ==
    /\ pc = "collect_years"
    /\ call = NoCall
    /\ ret = NoRet
    /\ \E n \in 0..MaxDateRows : dates \in [1..n -> DateChoices]
    /\ years = <<>>
    /\ holiday_calendar = <<>>
    /\ is_holiday_vals = <<>>
    /\ is_holiday = <<>>
    /\ i = 0
    /\ df = <<>>
    /\ rows = <<>>
    /\ num_summary_df = <<>>

numVars == <<df, rows, num_summary_df>>
fnVars == <<call, ret>>

\* for dval in df[date_col].dropna(): one pass of the loop body.
CollectYear ==
    /\ pc = "collect_years"
    /\ i < Len(DropNa(dates))
    /\ LET dval == DropNa(dates)[i + 1]
           y == dval.val.year
       IN  years' = IF ~InList(y, years) THEN Append(years, y) ELSE years
    /\ i' = i + 1
    /\ UNCHANGED <<pc, dates, holiday_calendar, is_holiday_vals, is_holiday>>
    /\ UNCHANGED <<fnVars, numVars>>

\* years = sorted(years); holiday_calendar = {}
SortYears ==
    /\ pc = "collect_years"
    /\ i = Len(DropNa(dates))
    /\ years' = sorted(years)
    /\ holiday_calendar' = <<>>
    /\ i' = 0
    /\ pc' = "build_calendar"
    /\ UNCHANGED <<dates, is_holiday_vals, is_holiday>>
    /\ UNCHANGED <<fnVars, numVars>>

\* for y in years: holiday_calendar[y] = build_us_holidays_for_year(y)
\* (an exception of the call ends the run).
BuildCalendar ==
    /\ pc = "build_calendar"
    /\ i < Len(years)
    /\ LET y == years[i + 1]
           built == build_us_holidays_for_year(y)
       IN  IF Raised(built)
           THEN /\ pc' = "error"
                /\ UNCHANGED <<holiday_calendar, i>>
           ELSE /\ holiday_calendar' = SetKey(holiday_calendar, y, built.hol)
                /\ i' = i + 1
                /\ pc' = pc
    /\ UNCHANGED <<dates, years, is_holiday_vals, is_holiday>>
    /\ UNCHANGED <<fnVars, numVars>>

\* is_holiday_vals = []
StartFlags ==
    /\ pc = "build_calendar"
    /\ i = Len(years)
    /\ is_holiday_vals' = <<>>
    /\ i' = 0
    /\ pc' = "flag_rows"
    /\ UNCHANGED <<dates, years, holiday_calendar, is_holiday>>
    /\ UNCHANGED <<fnVars, numVars>>

\* for i in range(len(df)): one pass of the loop body.
FlagRow ==
    /\ pc = "flag_rows"
    /\ i < Len(dates)
    /\ LET dval == dates[i + 1]
       IN  is_holiday_vals' = Append(is_holiday_vals, HolidayFlag(dval, holiday_calendar))
    /\ i' = i + 1
    /\ UNCHANGED <<pc, dates, years, holiday_calendar, is_holiday>>
    /\ UNCHANGED <<fnVars, numVars>>

\* df["is_holiday"] = is_holiday_vals
AssignFlags ==
    /\ pc = "flag_rows"
    /\ i = Len(dates)
    /\ is_holiday' = is_holiday_vals
    /\ pc' = "flags_done"
    /\ UNCHANGED <<dates, years, holiday_calendar, is_holiday_vals, i>>
    /\ UNCHANGED <<fnVars, numVars>>

NextCal ==
    CollectYear \/ SortYears \/ BuildCalendar \/ StartFlags \/ FlagRow \/ AssignFlags

SpecCal == InitCal /\ [][NextCal]_vars

\* The distinct years of the rows whose date is not missing.
YearsOfData == {dates[k].val.year : k \in {j \in 1..Len(dates) : ~dates[j].isna}}

CalendarBuilt == pc \in {"flag_rows", "flags_done"}

\* C9: once the calendar mapping is built its keys are exactly the distinct
\* years of the rows with a date; and in the finished is_holiday column a row
\* with a missing date is missing, a row whose date is in the holiday set
\* built for its year is True, and any other row is False.
C9_CalendarKeysAndFlags ==
    /\ CalendarBuilt =>
          /\ DOMAIN holiday_calendar = YearsOfData
          /\ \A y \in YearsOfData :
                holiday_calendar[y] = build_us_holidays_for_year(y).hol
    /\ pc = "flags_done" =>
          /\ Len(is_holiday) = Len(dates)
          /\ \A k \in 1..Len(dates) :
                is_holiday[k] =
                    IF dates[k].isna THEN "NaN"
                    ELSE IF dates[k].val \in
                              build_us_holidays_for_year(dates[k].val.year).hol
                         THEN "True"
                         ELSE "False"

\* C9 witness: a finished column that holds a missing flag, a True and a
\* False, the False for a date that is a holiday's month and day in another
\* year of the data.
C9_Witness ==
    /\ pc = "flags_done"
    /\ Len(dates) = 3
    /\ dates[1] = NaT /\ is_holiday[1] = "NaN"
    /\ dates[2] = Timestamp(2023, 11, 23) /\ is_holiday[2] = "True"
    /\ dates[3] = Timestamp(2024, 11, 23) /\ is_holiday[3] = "False"
    /\ DOMAIN holiday_calendar = {2023, 2024}

-----------------------------------------------------------------------------
(* Floating-point values of the numeric columns.  A finite value is held    *)
(* exactly, as a whole number of 1/Unit; every finite value the model       *)
(* computes (quarters of differences, 1.5 times them, hundredths) is such   *)
(* a number and is exact in binary floating point as well.  inf and NaN     *)
(* follow IEEE 754: inf - inf and 0 * inf are NaN, a comparison with NaN is *)
(* false.                                                                   *)

Unit == 8 * 100

Fin(x) == [k |-> "fin", v |-> x]
Num(x) == Fin(x * Unit)
NaN == [k |-> "nan", v |-> 0]
Inf == [k |-> "inf", v |-> 1]

IsNaN(a) == a.k = "nan"
IsFinite(a) == a.k = "fin"

FNeg(a) == IF a.k = "nan" THEN NaN ELSE [a EXCEPT !.v = -a.v]

FAdd(a, b) ==
    IF IsNaN(a) \/ IsNaN(b) THEN NaN
    ELSE IF a.k = "inf" /\ b.k = "inf" THEN (IF a.v = b.v THEN a ELSE NaN)
    ELSE IF a.k = "inf" THEN a
    ELSE IF b.k = "inf" THEN b
    ELSE Fin(a.v + b.v)

FSub(a, b) == FAdd(a, FNeg(b))

\* a * (num / den) for a constant num / den >= 0.
FMulQ(a, num, den) ==
    IF IsNaN(a) THEN NaN
    ELSE IF a.k = "inf" THEN (IF num = 0 THEN NaN ELSE a)
    ELSE Fin((a.v * num) \div den)

FLt(a, b) ==
    IF IsNaN(a) \/ IsNaN(b) THEN FALSE
    ELSE IF a.k = "inf" THEN a.v = -1 /\ ~(b.k = "inf" /\ b.v = -1)
    ELSE IF b.k = "inf" THEN b.v = 1
    ELSE a.v < b.v

FEq(a, b) == ~IsNaN(a) /\ ~IsNaN(b) /\ a = b
FLe(a, b) == FLt(a, b) \/ FEq(a, b)
FGt(a, b) == FLt(b, a)

\* round(k / n * 100.0, 2) for whole k >= 0, n > 0: the nearest hundredth,
\* a tie going to the even one.
RoundPct(k, n) ==
    LET h == (10000 * k) \div n
        r == (10000 * k) % n
        up == (2 * r > n) \/ (2 * r = n /\ h % 2 = 1)
    IN  Fin(8 * (IF up THEN h + 1 ELSE h))

-----------------------------------------------------------------------------
(* The numeric summary with IQR fences.                                    *)

\* s.dropna(): the values that are not missing, in order.
RECURSIVE dropna(_)
dropna(col) ==
    IF col = <<>> THEN <<>>
    ELSE IF IsNaN(Head(col)) THEN dropna(Tail(col))
         ELSE <<Head(col)>> \o dropna(Tail(col))

\* The values in ascending order (no NaN among them).
RECURSIVE FInsert(_, _)
FInsert(x, sortedList) ==
    IF sortedList = <<>> THEN <<x>>
    ELSE IF FLe(x, Head(sortedList)) THEN <<x>> \o sortedList
         ELSE <<Head(sortedList)>> \o FInsert(x, Tail(sortedList))

RECURSIVE FSort(_)
FSort(list) == IF list = <<>> THEN <<>> ELSE FInsert(Head(list), FSort(Tail(list)))

\* Linear interpolation between neighbours a <= b at t = quarters / 4, as
\* the quantile routine computes it: a + (b - a) * t below one half,
\* b - (b - a) * (1 - t) from one half on.
Lerp(a, b, quarters) ==
    LET diff_b_a == FSub(b, a)
    IN  IF quarters < 2
        THEN FAdd(a, FMulQ(diff_b_a, quarters, 4))
        ELSE FSub(b, FMulQ(diff_b_a, 4 - quarters, 4))

\* s.quantile(quarters / 4), linear interpolation between closest ranks:
\* the virtual index (n - 1) * q, its floor, and the fraction left.
quantile(s, quarters) ==
    LET srt == FSort(s)
        n == Len(srt)
        pos4 == (n - 1) * quarters
        previous == pos4 \div 4
        next == IF previous + 1 <= n - 1 THEN previous + 1 ELSE n - 1
    IN  Lerp(srt[previous + 1], srt[next + 1], pos4 % 4)

\* s.median(): the middle value, or the mean of the two middle values.
median(s) ==
    LET srt == FSort(s)
        n == Len(srt)
    IN  IF n % 2 = 1 THEN srt[(n + 1) \div 2]
        ELSE FMulQ(FAdd(srt[n \div 2], srt[n \div 2 + 1]), 1, 2)

\* q3 - q1
Iqr(q1, q3) == FSub(q3, q1)

\* A slip of sign: q1 + 1.5 * iqr.
LowerFencePlus(q1, iqr) == FAdd(q1, FMulQ(iqr, 3, 2))

\* lower = q1 - 1.5 * iqr
LowerFence(q1, iqr) == FSub(q1, FMulQ(iqr, 3, 2))

\* upper = q3 + 1.5 * iqr
UpperFence(q3, iqr) == FAdd(q3, FMulQ(iqr, 3, 2))

\* outlier_mask = (df[c] < lower) | (df[c] > upper), over the whole column.
OutlierMask(col, lower, upper) ==
    [j \in 1..Len(col) |-> FLt(col[j], lower) \/ FGt(col[j], upper)]

\* A slip: the share taken of the non-missing values, not of all rows.
OutlierPctOfNonMissing(col, lower, upper) ==
    LET mask == OutlierMask(col, lower, upper)
    IN  RoundPct(Cardinality({j \in 1..Len(col) : mask[j]}), Len(dropna(col)))

\* round((outlier_mask.sum() / len(df)) * 100.0, 2)
OutlierPct(col, lower, upper) ==
    LET mask == OutlierMask(col, lower, upper)
    IN  RoundPct(Cardinality({j \in 1..Len(col) : mask[j]}), Len(col))

RECURSIVE FSum(_)
FSum(s) == IF s = <<>> THEN Fin(0) ELSE FAdd(Head(s), FSum(Tail(s)))

\* round(float(s.mean()), 2): the nearest hundredth of sum / count, a tie
\* going to the even one; inf or NaN when the sum is.
Mean(s) ==
    LET total == FSum(s)
        n == Len(s)
    IN  IF ~IsFinite(total) THEN total
        ELSE LET hundredths == total.v \div 8
                 h == hundredths \div n
                 r == hundredths % n
                 up == (2 * r > n) \/ (2 * r = n /\ h % 2 = 1)
             IN  Fin(8 * (IF up THEN h + 1 ELSE h))

\* round(float(s.std()), 2), the sample standard deviation: NaN for a single
\* value or when a value is infinite.  Its finite value, a square root, is
\* not computed here: one token stands for it.
Std(s) ==
    IF Len(s) < 2 \/ \E j \in 1..Len(s) : ~IsFinite(s[j]) THEN NaN
    ELSE [k |-> "finite, not computed", v |-> 0]

\* A slip: zeros written for the statistics of an all-missing column.
EmptyRowZeros(c) ==
    [variable |-> c, count |-> 0, mean |-> Fin(0), std |-> Fin(0), min |-> Fin(0),
     q1 |-> Fin(0), median |-> Fin(0), q3 |-> Fin(0), max |-> Fin(0),
     iqr |-> Fin(0), lower_fence |-> Fin(0), upper_fence |-> Fin(0),
     outlier_pct |-> Fin(0)]

\* The record appended for a column without a non-missing value.
EmptyRow(c) ==
    [variable |-> c, count |-> 0, mean |-> NaN, std |-> NaN, min |-> NaN,
     q1 |-> NaN, median |-> NaN, q3 |-> NaN, max |-> NaN,
     iqr |-> NaN, lower_fence |-> NaN, upper_fence |-> NaN, outlier_pct |-> NaN]

\* The record appended for a column with non-missing values s; col is the
\* whole column df[c].
SummaryRow(c, col, s) ==
    LET q1 == quantile(s, 1)
        q3 == quantile(s, 3)
        iqr == Iqr(q1, q3)
        lower == LowerFence(q1, iqr)
        upper == UpperFence(q3, iqr)
        srt == FSort(s)
    IN  [variable |-> c, count |-> Len(s), mean |-> Mean(s), std |-> Std(s),
         min |-> srt[1], q1 |-> q1, median |-> median(s), q3 |-> q3,
         max |-> srt[Len(srt)], iqr |-> iqr, lower_fence |-> lower,
         upper_fence |-> upper, outlier_pct |-> OutlierPct(col, lower, upper)]

-----------------------------------------------------------------------------
(* SpecNum: the loop "numeric summary + IQR fences" over the numeric       *)
(* columns of a table.                                                     *)

\* The numeric columns, in the order of df.columns.
num_cols == <<"a", "b">>

\* The cells column a is drawn from: missing, two finite values, inf.
Values == {NaN, Num(1), Num(100), Inf}

\* The column of the spec's scenario.
ScenarioColumn == <<Num(1), Num(2), Num(3), Num(4), Num(100)>>

ColumnsA(n) == [1..n -> Values] \cup (IF n = 5 THEN {ScenarioColumn} ELSE {})

\* Column b is all missing, or counts the rows.
ColumnsB(n) == {[j \in 1..n |-> NaN], [j \in 1..n |-> Num(j)]}

InitNum ==
    /\ pc = "summarize"
    /\ call = NoCall
    /\ ret = NoRet
    /\ dates = <<>>
    /\ years = <<>>
    /\ holiday_calendar = <<>>
    /\ is_holiday_vals = <<>>
    /\ is_holiday = <<>>
    /\ i = 0
    /\ \E n \in 1..MaxRows :
          \E ca \in ColumnsA(n), cb \in ColumnsB(n) : df = [a |-> ca, b |-> cb]
    /\ rows = <<>>
    /\ num_summary_df = <<>>

calVars == <<dates, years, holiday_calendar, is_holiday_vals, is_holiday>>

\* for c in num_cols: the branch len(s) == 0.
SummarizeEmpty ==
    /\ pc = "summarize"
    /\ i < Len(num_cols)
    /\ LET c == num_cols[i + 1]
           s == dropna(df[c])
       IN  /\ Len(s) = 0
           /\ rows' = Append(rows, EmptyRow(c))
    /\ i' = i + 1
    /\ UNCHANGED <<pc, df, num_summary_df, fnVars, calVars>>

\* for c in num_cols: the branch with at least one non-missing value.
SummarizeValues ==
    /\ pc = "summarize"
    /\ i < Len(num_cols)
    /\ LET c == num_cols[i + 1]
           s == dropna(df[c])
       IN  /\ Len(s) # 0
           /\ rows' = Append(rows, SummaryRow(c, df[c], s))
    /\ i' = i + 1
    /\ UNCHANGED <<pc, df, num_summary_df, fnVars, calVars>>

\* num_summary_df = pd.DataFrame(rows)
BuildSummary ==
    /\ pc = "summarize"
    /\ i = Len(num_cols)
    /\ num_summary_df' = rows
    /\ pc' = "summary_done"
    /\ UNCHANGED <<i, df, rows, fnVars, calVars>>

NextNum == SummarizeEmpty \/ SummarizeValues \/ BuildSummary

SpecNum == InitNum /\ [][NextNum]_vars

\* The column a summary record is about.
ColumnOf(r) == df[r.variable]
HasValue(col) == \E j \in 1..Len(col) : ~IsNaN(col[j])
AllFinite(col) == \A j \in 1..Len(col) : IsNaN(col[j]) \/ IsFinite(col[j])
AllMissing(col) == \A j \in 1..Len(col) : IsNaN(col[j])

\* The rows of col that lie outside [lower, upper]; a missing value does not.
OutliersOf(col, lower, upper) ==
    {j \in 1..Len(col) :
        /\ ~IsNaN(col[j])
        /\ FLt(col[j], lower) \/ FLt(upper, col[j])}

PctInRange(r) == FLe(Fin(0), r.outlier_pct) /\ FLe(r.outlier_pct, Num(100))

FencesOrdered(r) ==
    /\ FLe(r.lower_fence, r.q1)
    /\ FLe(r.q1, r.median)
    /\ FLe(r.median, r.q3)
    /\ FLe(r.q3, r.upper_fence)

\* C6 as stated: every summary of a column with a non-missing value has
\* lower_fence <= Q1 <= median <= Q3 <= upper_fence and outlier_pct in [0, 100].
C6_Original ==
    \A k \in 1..Len(rows) :
        HasValue(ColumnOf(rows[k])) => (FencesOrdered(rows[k]) /\ PctInRange(rows[k]))

\* C6 amended: every summary of a column with a non-missing value and no
\* infinite value has lower_fence <= Q1 <= median <= Q3 <= upper_fence and
\* outlier_pct in [0, 100].
C6_FencesOrderedFinite ==
    \A k \in 1..Len(rows) :
        (HasValue(ColumnOf(rows[k])) /\ AllFinite(ColumnOf(rows[k]))) =>
            (FencesOrdered(rows[k]) /\ PctInRange(rows[k]))

\* C6 witness: a summary with lower_fence < Q1 < median < Q3 < upper_fence
\* and an outlier share strictly between 0 and 100.
C6_Witness ==
    \E k \in 1..Len(rows) :
        /\ AllFinite(ColumnOf(rows[k]))
        /\ FLt(rows[k].lower_fence, rows[k].q1)
        /\ FLt(rows[k].q1, rows[k].median)
        /\ FLt(rows[k].median, rows[k].q3)
        /\ FLt(rows[k].q3, rows[k].upper_fence)
        /\ FLt(Fin(0), rows[k].outlier_pct)
        /\ FLt(rows[k].outlier_pct, Num(100))

\* The summary of the spec's scenario, values 1, 2, 3, 4, 100 in five rows.
ScenarioSummary(r) ==
    /\ r.q1 = Num(2) /\ r.median = Num(3) /\ r.q3 = Num(4) /\ r.iqr = Num(2)
    /\ r.lower_fence = Num(-1) /\ r.upper_fence = Num(7)
    /\ OutliersOf(ColumnOf(r), r.lower_fence, r.upper_fence) = {5}
    /\ r.outlier_pct = Num(20)

\* C7 as stated: outlier_pct equals 100 * (rows with a value strictly below
\* Q1 - 1.5 IQR or strictly above Q3 + 1.5 IQR) / (rows of the table).
C7_Original ==
    \A k \in 1..Len(rows) :
        HasValue(ColumnOf(rows[k])) =>
            LET r == rows[k]
                col == ColumnOf(r)
                n == Cardinality(OutliersOf(col,
                         FSub(r.q1, FMulQ(FSub(r.q3, r.q1), 3, 2)),
                         FAdd(r.q3, FMulQ(FSub(r.q3, r.q1), 3, 2))))
            IN  /\ IsFinite(r.outlier_pct)
                /\ r.outlier_pct.v * Len(col) = 100 * Unit * n

\* C7 amended: outlier_pct equals that quotient rounded to 2 decimal places
\* (within half a hundredth of it, and a whole number of hundredths); the
\* scenario 1, 2, 3, 4, 100 gives Q1 2, median 3, Q3 4, IQR 2, fences -1 and
\* 7, one outlier, 20.0.
C7_OutlierPctRounded ==
    \A k \in 1..Len(rows) :
        HasValue(ColumnOf(rows[k])) =>
            LET r == rows[k]
                col == ColumnOf(r)
                n == Cardinality(OutliersOf(col,
                         FSub(r.q1, FMulQ(FSub(r.q3, r.q1), 3, 2)),
                         FAdd(r.q3, FMulQ(FSub(r.q3, r.q1), 3, 2))))
                hundredths == r.outlier_pct.v \div 8
            IN  /\ IsFinite(r.outlier_pct)
                /\ r.outlier_pct.v % 8 = 0
                /\ 2 * (hundredths * Len(col) - 10000 * n) <= Len(col)
                /\ 2 * (10000 * n - hundredths * Len(col)) <= Len(col)
                /\ (col = ScenarioColumn) => ScenarioSummary(r)

\* C7 witness: six rows, one missing, four values equal to both fences and
\* one outlier: 100 / 6 is reported as 16.67.
C7_Witness ==
    \E k \in 1..Len(rows) :
        /\ ColumnOf(rows[k]) = <<Num(1), NaN, Num(1), Num(100), Num(1), Num(1)>>
        /\ rows[k].lower_fence = Num(1) /\ rows[k].upper_fence = Num(1)
        /\ rows[k].outlier_pct = Fin(1667 * 8)

\* The statistics of a record, count aside.
Statistics(r) ==
    {r.mean, r.std, r.min, r.q1, r.median, r.q3, r.max, r.iqr,
     r.lower_fence, r.upper_fence, r.outlier_pct}

\* C8: a numeric column whose values are all missing gets exactly one record,
\* with count 0 and every other statistic null; every numeric column gets its
\* one record, in order, whatever the other columns hold.
C8_AllMissingColumn ==
    /\ Len(rows) = i
    /\ \A k \in 1..Len(rows) :
          /\ rows[k].variable = num_cols[k]
          /\ AllMissing(df[num_cols[k]]) =>
                (rows[k].count = 0 /\ Statistics(rows[k]) = {NaN})
          /\ ~AllMissing(df[num_cols[k]]) => rows[k].count > 0
    /\ pc = "summary_done" =>
          /\ Len(num_summary_df) = Len(num_cols)
          /\ num_summary_df = rows

\* C8 witness: the finished summary of a table whose first column is all
\* missing and whose second is not: a null record, then a full one.
C8_Witness ==
    /\ pc = "summary_done"
    /\ AllMissing(df.a) /\ ~AllMissing(df.b)
    /\ num_summary_df[1].count = 0
    /\ Statistics(num_summary_df[1]) = {NaN}
    /\ num_summary_df[2].count = Len(df.b)
    /\ ~IsNaN(num_summary_df[2].outlier_pct)

=============================================================================
